---- MODULE Spec2Model ----
(***************************************************************************)
(* ISAGA 2.0 (src/isaga_core.py) as a state machine.                       *)
(*                                                                         *)
(* State: the CorpusAnalyzer's bigram_counts, one PredictiveRepairEngine   *)
(* (its transition_matrix is computed once, in __init__), one              *)
(* IndusNetworkVisualizer (its graph is built once, in __init__), and the  *)
(* outcome of the last call.                                               *)
(*                                                                         *)
(* Representation choices:                                                 *)
(*  - a Python dict is a sequence of entries in insertion order; dict      *)
(*    equality (DictEq) ignores that order, iteration follows it;          *)
(*  - a float probability count/total is the exact fraction                *)
(*    [num |-> count, den |-> total]; products multiply numerators and     *)
(*    denominators and the 0.1 penalty multiplies the denominator by 10;   *)
(*    scores are compared by cross-multiplication.  Binary rounding is not *)
(*    modelled;                                                            *)
(*  - None is the integer NoneVal, outside the sign ids used as inputs;    *)
(*  - list indices are Python's (0-based, negative indices count from the  *)
(*    end, anything else raises IndexError).                               *)
(***************************************************************************)
EXTENDS Integers, Sequences, FiniteSets, TLC

VARIABLES bigram_counts, corpus, engine, visualizer, last

vars == <<bigram_counts, corpus, engine, visualizer, last>>

NoneVal == -1

(***************************************************************************)
(* MODULE 1: IndusSignDatabase                                             *)
(***************************************************************************)

\* SIGN_CATALOG in dict (insertion) order; description is display text only.
SIGN_CATALOG ==
  << [id |-> 342, name |-> "JAR",         role |-> "TERMINAL",           frequency |-> 1200],
     [id |-> 343, name |-> "MARKED_JAR",  role |-> "TERMINAL",           frequency |-> 450],
     [id |-> 344, name |-> "DOUBLE_JAR",  role |-> "TERMINAL",           frequency |-> 120],
     [id |-> 59,  name |-> "FISH",        role |-> "COMMODITY",          frequency |-> 850],
     [id |-> 60,  name |-> "FISH2",       role |-> "COMMODITY",          frequency |-> 320],
     [id |-> 211, name |-> "WHEEL",       role |-> "COMMODITY",          frequency |-> 560],
     [id |-> 123, name |-> "MAN",         role |-> "COMMODITY",          frequency |-> 410],
     [id |-> 99,  name |-> "ARROW",       role |-> "OPERATOR",           frequency |-> 380],
     [id |-> 456, name |-> "UNICORN",     role |-> "OPERATOR",           frequency |-> 290],
     [id |-> 789, name |-> "STROKE",      role |-> "QUANTITY",           frequency |-> 670],
     [id |-> 65,  name |-> "FISH+ROOF",   role |-> "MODIFIED_COMMODITY", frequency |-> 180],
     [id |-> 212, name |-> "WHEEL+ARROW", role |-> "MODIFIED_COMMODITY", frequency |-> 95] >>

CatalogIds == {SIGN_CATALOG[i].id : i \in DOMAIN SIGN_CATALOG}

MIN_SEQUENCE_LENGTH == 2

FORBIDDEN_TRANSITIONS ==
  { <<"TERMINAL", "COMMODITY">>,
    <<"TERMINAL", "OPERATOR">>,
    <<"QUANTITY", "OPERATOR">> }

\* str(sign_id) inside the f-string of get_sign_info; str(None) is "None".
PyStr(sign_id) == IF sign_id = NoneVal THEN "None" ELSE ToString(sign_id)

get_sign_info(sign_id) ==
  IF sign_id \in CatalogIds
    THEN LET i == CHOOSE j \in DOMAIN SIGN_CATALOG : SIGN_CATALOG[j].id = sign_id
         IN  SIGN_CATALOG[i]
    ELSE [id |-> sign_id, name |-> "SIGN_" \o PyStr(sign_id),
          role |-> "UNKNOWN", frequency |-> 1]

get_role(sign_id) == get_sign_info(sign_id).role

get_name(sign_id) == get_sign_info(sign_id).name

\* the forbidden list left unread; only the terminal rule remains
can_follow_SinkOnly(sign1_id, sign2_id) == get_role(sign1_id) # "TERMINAL"

can_follow(sign1_id, sign2_id) ==
  LET role1 == get_role(sign1_id)
      role2 == get_role(sign2_id)
  IN  IF <<role1, role2>> \in FORBIDDEN_TRANSITIONS THEN FALSE
      ELSE IF role1 = "TERMINAL" THEN FALSE
      ELSE TRUE

(***************************************************************************)
(* Python list indexing                                                    *)
(***************************************************************************)

PyIndexOK(seq, k) == -Len(seq) <= k /\ k < Len(seq)

PyGet(seq, k) == IF k >= 0 THEN seq[k + 1] ELSE seq[Len(seq) + k + 1]

\* bool(x) for x an int or None
Truthy(x) == x # NoneVal /\ x # 0

(***************************************************************************)
(* MODULE 2: IndusInscription.validate_syntax                              *)
(***************************************************************************)

\* the check of the last sign's role skipped
validate_syntax_NoTerminalCheck(signs) ==
  IF Len(signs) < MIN_SEQUENCE_LENGTH
    THEN [valid |-> FALSE, text |-> "Sequence too short (Frag?)"]
  ELSE IF \E i \in 1..(Len(signs) - 1) : ~can_follow(signs[i], signs[i + 1])
    THEN LET i == CHOOSE j \in 1..(Len(signs) - 1) :
                    /\ ~can_follow(signs[j], signs[j + 1])
                    /\ \A k \in 1..(j - 1) : can_follow(signs[k], signs[k + 1])
         IN  [valid |-> FALSE,
              text  |-> "Logic Error: " \o get_role(signs[i]) \o
                        " cannot flow into " \o get_role(signs[i + 1])]
  ELSE [valid |-> TRUE, text |-> "Valid Administrative Protocol"]

validate_syntax(signs) ==
  IF Len(signs) < MIN_SEQUENCE_LENGTH
    THEN [valid |-> FALSE, text |-> "Sequence too short (Frag?)"]
  ELSE IF /\ get_role(signs[Len(signs)]) # "TERMINAL"
          /\ get_role(signs[Len(signs)]) # "QUANTITY"
    THEN [valid |-> FALSE,
          text  |-> "Protocol Violation: Missing Terminal Seal (Jar)."]
  ELSE IF \E i \in 1..(Len(signs) - 1) : ~can_follow(signs[i], signs[i + 1])
    THEN LET i == CHOOSE j \in 1..(Len(signs) - 1) :
                    /\ ~can_follow(signs[j], signs[j + 1])
                    /\ \A k \in 1..(j - 1) : can_follow(signs[k], signs[k + 1])
         IN  [valid |-> FALSE,
              text  |-> "Logic Error: " \o get_role(signs[i]) \o
                        " cannot flow into " \o get_role(signs[i + 1])]
  ELSE [valid |-> TRUE, text |-> "Valid Administrative Protocol"]

(***************************************************************************)
(* Fractions standing for the floats count / total                         *)
(***************************************************************************)

Frac(n, d) == [num |-> n, den |-> d]

FZero == Frac(0, 1)

FMul(a, b) == Frac(a.num * b.num, a.den * b.den)

\* x *= 0.1
FTenth(a) == Frac(a.num, a.den * 10)

FLess(a, b) == a.num * b.den < b.num * a.den

FEq(a, b) == a.num * b.den = b.num * a.den

FPos(a) == a.num > 0

\* f"{p:.2f}" in hundredths; an exact tie (only at denominators that are a
\* multiple of 8) goes to the even neighbour, as for a float that holds the
\* value exactly.
Fmt2(a) ==
  LET q == (100 * a.num) \div a.den
      r == (100 * a.num) % a.den
  IN  IF 2 * r > a.den THEN q + 1
      ELSE IF 2 * r < a.den THEN q
      ELSE IF q % 2 = 0 THEN q ELSE q + 1

(***************************************************************************)
(* MODULE 3: CorpusAnalyzer                                                *)
(*                                                                         *)
(* bigram_counts is a defaultdict(int): a sequence of entries              *)
(* [src, tgt, count] in key-insertion order, one entry per key.            *)
(***************************************************************************)

EmptyDict == << >>

HasKey(counts, source, target) ==
  \E i \in DOMAIN counts : counts[i].src = source /\ counts[i].tgt = target

\* bigram_counts.get((source, target), 0)
GetCount(counts, source, target) ==
  IF HasKey(counts, source, target)
    THEN LET i == CHOOSE j \in DOMAIN counts :
                    counts[j].src = source /\ counts[j].tgt = target
         IN  counts[i].count
    ELSE 0

\* dict == dict: the same keys with the same values, in any order
DictEq(a, b) == {a[i] : i \in DOMAIN a} = {b[i] : i \in DOMAIN b}

RECURSIVE SumCounts(_, _)
\* sum(count for (src, _), count in bigram_counts.items() if src == source)
SumCounts(counts, source) ==
  IF counts = << >> THEN 0
  ELSE (IF Head(counts).src = source THEN Head(counts).count ELSE 0)
       + SumCounts(Tail(counts), source)

RECURSIVE SumAll(_)
\* sum(bigram_counts.values())
SumAll(counts) ==
  IF counts = << >> THEN 0 ELSE Head(counts).count + SumAll(Tail(counts))

\* self.bigram_counts[(source, target)] += 1
Increment(counts, source, target) ==
  IF HasKey(counts, source, target)
    THEN [i \in DOMAIN counts |->
            IF counts[i].src = source /\ counts[i].tgt = target
              THEN [counts[i] EXCEPT !.count = @ + 1]
              ELSE counts[i]]
    ELSE Append(counts, [src |-> source, tgt |-> target, count |-> 1])

RECURSIVE AddFrom(_, _, _)
\* the loop of add_inscription from position i (1-based) on
AddFrom(counts, signs, i) ==
  IF i > Len(signs) - 1 THEN counts
  ELSE AddFrom(Increment(counts, get_name(signs[i]), get_name(signs[i + 1])),
               signs, i + 1)

\* the table is rebuilt from this inscription alone
add_inscription_Reset(counts, signs) == AddFrom(EmptyDict, signs, 1)

\* the sequence padded with boundary markers, as bigram models often do
add_inscription_Boundaries(counts, signs) ==
  IF signs = << >> THEN counts
  ELSE Increment(AddFrom(Increment(counts, "START", get_name(signs[1])), signs, 1),
                 get_name(signs[Len(signs)]), "END")

add_inscription(counts, signs) == AddFrom(counts, signs, 1)

\* total_source counted over the whole table instead of the source's row
get_transition_probability_AllRows(counts, source_name, target_name) ==
  IF SumCounts(counts, source_name) = 0 THEN FZero
  ELSE Frac(GetCount(counts, source_name, target_name), SumAll(counts))

get_transition_probability(counts, source_name, target_name) ==
  LET total_source == SumCounts(counts, source_name)
  IN  IF total_source = 0 THEN FZero
      ELSE Frac(GetCount(counts, source_name, target_name), total_source)

(***************************************************************************)
(* MODULE 4: PredictiveRepairEngine                                        *)
(*                                                                         *)
(* transition_matrix: source name -> (target name -> probability), for the *)
(* sources and targets that are keys of the table it was built from.       *)
(***************************************************************************)

EmptyMatrix == [s \in {} |-> [t \in {} |-> FZero]]

\* every count divided by the total of the whole table
build_transition_matrix_GlobalTotal(counts) ==
  [s \in {counts[i].src : i \in DOMAIN counts} |->
     [t \in {counts[i].tgt : i \in {j \in DOMAIN counts : counts[j].src = s}} |->
        Frac(GetCount(counts, s, t), SumAll(counts))]]

\* _build_transition_matrix: source_totals, then count / source_totals[source]
build_transition_matrix(counts) ==
  LET source_totals == [s \in {counts[i].src : i \in DOMAIN counts} |->
                          SumCounts(counts, s)]
  IN  [s \in DOMAIN source_totals |->
         [t \in {counts[i].tgt : i \in {j \in DOMAIN counts : counts[j].src = s}} |->
            Frac(GetCount(counts, s, t), source_totals[s])]]

\* matrix[row].get(col, 0.0) guarded by `row in matrix`
MatrixGet(matrix, row, col) ==
  IF row \in DOMAIN matrix
    THEN (IF col \in DOMAIN matrix[row] THEN matrix[row][col] ELSE FZero)
    ELSE FZero

\* the two context reads at the top of predict_missing_sign raise IndexError
PredictRaises(sequence, gap_index) ==
  \/ gap_index > 0 /\ ~PyIndexOK(sequence, gap_index - 1)
  \/ gap_index < Len(sequence) - 1 /\ ~PyIndexOK(sequence, gap_index + 1)

pre_sign(sequence, gap_index) ==
  IF gap_index > 0 THEN PyGet(sequence, gap_index - 1) ELSE NoneVal

post_sign(sequence, gap_index) ==
  IF gap_index < Len(sequence) - 1 THEN PyGet(sequence, gap_index + 1) ELSE NoneVal

pre_name(sequence, gap_index) ==
  IF Truthy(pre_sign(sequence, gap_index))
    THEN get_name(pre_sign(sequence, gap_index)) ELSE "START"

post_name(sequence, gap_index) ==
  IF Truthy(post_sign(sequence, gap_index))
    THEN get_name(post_sign(sequence, gap_index)) ELSE "END"

p_forward(matrix, sequence, gap_index, sign_name) ==
  MatrixGet(matrix, pre_name(sequence, gap_index), sign_name)

p_backward(matrix, sequence, gap_index, sign_name) ==
  MatrixGet(matrix, sign_name, post_name(sequence, gap_index))

\* p_forward * p_backward, before any penalty
JointProb(matrix, sequence, gap_index, sign_name) ==
  FMul(p_forward(matrix, sequence, gap_index, sign_name),
       p_backward(matrix, sequence, gap_index, sign_name))

\* the two `joint_prob *= 0.1` lines
Penalised(sequence, gap_index, sign_id, joint) ==
  LET pre  == pre_sign(sequence, gap_index)
      post == post_sign(sequence, gap_index)
      a    == IF Truthy(pre) /\ ~can_follow(pre, sign_id) THEN FTenth(joint) ELSE joint
  IN  IF Truthy(post) /\ ~can_follow(sign_id, post) THEN FTenth(a) ELSE a

\* the tuple appended for one catalog entry; the explanation keeps the names
\* and the two factors as formatted (hundredths)
Candidate(matrix, sequence, gap_index, info) ==
  [id    |-> info.id,
   score |-> Penalised(sequence, gap_index, info.id,
                       JointProb(matrix, sequence, gap_index, info.name)),
   explanation |->
     << pre_name(sequence, gap_index), info.name,
        Fmt2(p_forward(matrix, sequence, gap_index, info.name)),
        post_name(sequence, gap_index),
        Fmt2(p_backward(matrix, sequence, gap_index, info.name)) >>]

RECURSIVE CandidatesFrom(_, _, _, _)
\* the loop over SIGN_CATALOG.items() from entry i on
CandidatesFrom(matrix, sequence, gap_index, i) ==
  IF i > Len(SIGN_CATALOG) THEN << >>
  ELSE LET info == SIGN_CATALOG[i]
           rest == CandidatesFrom(matrix, sequence, gap_index, i + 1)
       IN  IF FPos(JointProb(matrix, sequence, gap_index, info.name))
             THEN <<Candidate(matrix, sequence, gap_index, info)>> \o rest
             ELSE rest

\* list.sort(key=score, reverse=True): descending, equal keys keep their order
RECURSIVE InsertDesc(_, _)
InsertDesc(sorted, c) ==
  IF sorted = << >> THEN <<c>>
  ELSE IF FLess(Head(sorted).score, c.score) THEN <<c>> \o sorted
  ELSE <<Head(sorted)>> \o InsertDesc(Tail(sorted), c)

RECURSIVE SortDescFrom(_, _, _)
SortDescFrom(sorted, list, i) ==
  IF i > Len(list) THEN sorted
  ELSE SortDescFrom(InsertDesc(sorted, list[i]), list, i + 1)

\* ascending instead of descending
SortByScore_Ascending(list) ==
  LET d == SortDescFrom(<< >>, list, 1)
  IN  [i \in DOMAIN d |-> d[Len(d) + 1 - i]]

SortByScore(list) == SortDescFrom(<< >>, list, 1)

TOP_CANDIDATES == 3

\* list[:n]
Take(list, n) == SubSeq(list, 1, IF Len(list) < n THEN Len(list) ELSE n)

\* predict_missing_sign on a call that does not raise
predict_missing_sign(matrix, sequence, gap_index) ==
  Take(SortByScore(CandidatesFrom(matrix, sequence, gap_index, 1)), TOP_CANDIDATES)

(***************************************************************************)
(* MODULE 5: IndusNetworkVisualizer                                        *)
(*                                                                         *)
(* graph: nx.DiGraph as [nodes, edges]; nodes in the order add_edge first  *)
(* meets them, edges as [src, tgt, weight].  in_degree / out_degree with   *)
(* weight='weight' sum the weights of the edges into / out of a node, and  *)
(* nx.density is m / (n * (n - 1)), or 0 when m = 0 or n <= 1.             *)
(***************************************************************************)

EmptyGraph == [nodes |-> << >>, edges |-> << >>]

AddNode(nodes, n) ==
  IF \E i \in DOMAIN nodes : nodes[i] = n THEN nodes ELSE Append(nodes, n)

\* graph.add_edge(source, target, weight=weight)
add_edge(graph, source, target, weight) ==
  [nodes |-> AddNode(AddNode(graph.nodes, source), target),
   edges |-> Append(graph.edges, [src |-> source, tgt |-> target, weight |-> weight])]

RECURSIVE BuildGraphFrom(_, _, _)
\* the loop of _build_graph over bigram_counts.items() from entry i on
BuildGraphFrom(graph, counts, i) ==
  IF i > Len(counts) THEN graph
  ELSE BuildGraphFrom(add_edge(graph, counts[i].src, counts[i].tgt, counts[i].count),
                      counts, i + 1)

build_graph(counts) == BuildGraphFrom(EmptyGraph, counts, 1)

RECURSIVE SumIn(_, _)
SumIn(edges, node) ==
  IF edges = << >> THEN 0
  ELSE (IF Head(edges).tgt = node THEN Head(edges).weight ELSE 0)
       + SumIn(Tail(edges), node)

RECURSIVE SumOut(_, _)
SumOut(edges, node) ==
  IF edges = << >> THEN 0
  ELSE (IF Head(edges).src = node THEN Head(edges).weight ELSE 0)
       + SumOut(Tail(edges), node)

in_degree(graph, node) == SumIn(graph.edges, node)

out_degree(graph, node) == SumOut(graph.edges, node)

\* if i_d > o_d
IsSink(graph, node) == in_degree(graph, node) > out_degree(graph, node)

RECURSIVE TerminalsFrom(_, _)
\* the loop over graph.nodes() from node i on
TerminalsFrom(graph, i) ==
  IF i > Len(graph.nodes) THEN << >>
  ELSE LET node == graph.nodes[i]
           rest == TerminalsFrom(graph, i + 1)
       IN  IF IsSink(graph, node)
             THEN << [node |-> node, i_d |-> in_degree(graph, node),
                      o_d |-> out_degree(graph, node)] >> \o rest
             ELSE rest

\* terminals.sort(key=lambda x: x[1], reverse=True)
RECURSIVE InsertByInDegree(_, _)
InsertByInDegree(sorted, t) ==
  IF sorted = << >> THEN <<t>>
  ELSE IF Head(sorted).i_d < t.i_d THEN <<t>> \o sorted
  ELSE <<Head(sorted)>> \o InsertByInDegree(Tail(sorted), t)

RECURSIVE SortTerminalsFrom(_, _, _)
SortTerminalsFrom(sorted, list, i) ==
  IF i > Len(list) THEN sorted
  ELSE SortTerminalsFrom(InsertByInDegree(sorted, list[i]), list, i + 1)

\* the list left in node order
SortTerminals_Unsorted(list) == list

SortTerminals(list) == SortTerminalsFrom(<< >>, list, 1)

TOP_TERMINALS == 5

density(graph) ==
  LET n == Len(graph.nodes)
      m == Len(graph.edges)
  IN  IF m = 0 \/ n <= 1 THEN FZero ELSE Frac(m, n * (n - 1))

analyze_network_properties(graph) ==
  [terminals |-> Take(SortTerminals(TerminalsFrom(graph, 1)), TOP_TERMINALS),
   density   |-> density(graph)]

(***************************************************************************)
(* State machine                                                           *)
(*                                                                         *)
(* corpus is a history variable: the inscriptions passed to                *)
(* add_inscription so far, in call order.  last is the latest call: its    *)
(* name, its arguments, whether it raised, and what it returned.           *)
(***************************************************************************)

Call(op, signs, gap, names, raised, out) ==
  [op |-> op, signs |-> signs, gap |-> gap, names |-> names,
   raised |-> raised, out |-> out]

NoOut == << >>

Init ==
  /\ bigram_counts = EmptyDict
  /\ corpus = << >>
  /\ engine = [built |-> FALSE, transition_matrix |-> EmptyMatrix]
  /\ visualizer = [built |-> FALSE, graph |-> EmptyGraph]
  /\ last = Call("init", << >>, 0, << >>, FALSE, NoOut)

\* analyzer.add_inscription(IndusInscription(signs))
AddInscription(pool) ==
  \E signs \in pool :
    /\ bigram_counts' = add_inscription(bigram_counts, signs)
    /\ corpus' = Append(corpus, signs)
    /\ last' = Call("add_inscription", signs, 0, << >>, FALSE, NoOut)
    /\ UNCHANGED <<engine, visualizer>>

\* IndusInscription(signs).validate_syntax()
ValidateSyntax(pool) ==
  \E signs \in pool :
    /\ last' = Call("validate_syntax", signs, 0, << >>, FALSE, validate_syntax(signs))
    /\ UNCHANGED <<bigram_counts, corpus, engine, visualizer>>

\* the lookup written bigram_counts[(source, target)], which on a defaultdict
\* stores the missing key with count 0
GetTransitionProbability_Subscript(pool) ==
  \E names \in pool :
    /\ last' = Call("get_transition_probability", << >>, 0, names, FALSE,
                    get_transition_probability(bigram_counts, names[1], names[2]))
    /\ bigram_counts' =
         IF SumCounts(bigram_counts, names[1]) = 0
              \/ HasKey(bigram_counts, names[1], names[2])
           THEN bigram_counts
           ELSE Append(bigram_counts,
                       [src |-> names[1], tgt |-> names[2], count |-> 0])
    /\ UNCHANGED <<corpus, engine, visualizer>>

\* analyzer.get_transition_probability(source_name, target_name)
GetTransitionProbability(pool) ==
  \E names \in pool :
    /\ last' = Call("get_transition_probability", << >>, 0, names, FALSE,
                    get_transition_probability(bigram_counts, names[1], names[2]))
    /\ UNCHANGED <<bigram_counts, corpus, engine, visualizer>>

\* PredictiveRepairEngine(analyzer): __init__ computes the matrix once
NewEngine ==
  /\ engine' = [built |-> TRUE,
                transition_matrix |-> build_transition_matrix(bigram_counts)]
  /\ last' = Call("new_engine", << >>, 0, << >>, FALSE, NoOut)
  /\ UNCHANGED <<bigram_counts, corpus, visualizer>>

\* engine.predict_missing_sign(sequence, gap_index), reading the matrix the
\* engine holds
PredictMissingSign(pool) ==
  /\ engine.built
  /\ \E q \in pool :
       /\ last' = IF PredictRaises(q[1], q[2])
                    THEN Call("predict_missing_sign", q[1], q[2], << >>, TRUE, NoOut)
                    ELSE Call("predict_missing_sign", q[1], q[2], << >>, FALSE,
                              predict_missing_sign(engine.transition_matrix, q[1], q[2]))
       /\ UNCHANGED <<bigram_counts, corpus, engine, visualizer>>

\* IndusNetworkVisualizer(analyzer): __init__ builds the graph once
NewVisualizer ==
  /\ visualizer' = [built |-> TRUE, graph |-> build_graph(bigram_counts)]
  /\ last' = Call("new_visualizer", << >>, 0, << >>, FALSE, NoOut)
  /\ UNCHANGED <<bigram_counts, corpus, engine>>

\* visualizer.analyze_network_properties()
AnalyzeNetworkProperties ==
  /\ visualizer.built
  /\ last' = Call("analyze_network_properties", << >>, 0, << >>, FALSE,
                  analyze_network_properties(visualizer.graph))
  /\ UNCHANGED <<bigram_counts, corpus, engine, visualizer>>

(***************************************************************************)
(* Spec: the library driven by any caller, inputs from small pools         *)
(***************************************************************************)

MaxCorpus == 2

MaxGap == 2

\* ids that are not in the catalog
UnknownIds == {7}

Inscriptions ==
  { <<342>>,
    <<59, 99, 342, 59, 99, 342, 59, 789, 342>>,
    <<59, 342, 342, 342, 59, 456, 342>> }

ValidateInputs == Inscriptions \cup { <<342, 59>>, <<59, 7>> }

ProbabilityInputs ==
  { <<"FISH", "ARROW">>, <<"JAR", "JAR">>, <<"ARROW", "FISH">>, <<"START", "FISH">> }

QuerySequences ==
  { << >>, <<342>>, <<59, NoneVal, 342>>, <<59, NoneVal>>, <<NoneVal, 342>> }

Queries == QuerySequences \X (-MaxGap..MaxGap)

Next ==
  \/ Len(corpus) < MaxCorpus /\ AddInscription(Inscriptions)
  \/ ValidateSyntax(ValidateInputs)
  \/ GetTransitionProbability(ProbabilityInputs)
  \/ NewEngine
  \/ PredictMissingSign(Queries)
  \/ NewVisualizer
  \/ AnalyzeNetworkProperties

Spec == Init /\ [][Next]_vars

(***************************************************************************)
(* SpecValidate: validate_syntax on every sequence of up to MaxLen signs   *)
(***************************************************************************)

MaxLen == 4

SignIds == CatalogIds \cup UnknownIds

\* at least one sign of every role
ValidateSigns == {342, 343, 59, 99, 789, 65} \cup UnknownIds

RECURSIVE SeqsUpTo(_, _)
SeqsUpTo(S, n) ==
  IF n = 0 THEN { << >> }
  ELSE LET shorter == SeqsUpTo(S, n - 1)
       IN  shorter \cup {Append(q, x) : q \in {r \in shorter : Len(r) = n - 1}, x \in S}

\* one call per behaviour: the verdict depends on the argument alone
NextValidate == last.op = "init" /\ ValidateSyntax(SeqsUpTo(ValidateSigns, MaxLen))

SpecValidate == Init /\ [][NextValidate]_vars

(***************************************************************************)
(* SpecScenario: the session of src/app.py.  The analyzer is trained on    *)
(* training_data (each inscription once, here in any order); engines are   *)
(* constructed and asked for the gap between two signs.                    *)
(***************************************************************************)

training_data ==
  { <<59, 99, 342>>, <<211, 99, 342>>, <<123, 456, 342>>,
    <<59, 789, 342>>, <<211, 789, 342>>, <<65, 99, 343>> }

Added == {corpus[i] : i \in DOMAIN corpus}

ScenarioQueries ==
  { << <<211, NoneVal, 342>>, 1 >>,
    << <<59, NoneVal, 342>>, 1 >>,
    << <<65, NoneVal, 343>>, 1 >> }

NextScenario ==
  \/ AddInscription(training_data \ Added)
  \/ NewEngine
  \/ PredictMissingSign(ScenarioQueries)

SpecScenario == Init /\ [][NextScenario]_vars

(***************************************************************************)
(* SpecNet: a corpus is accumulated (each inscription of NetCorpus once,   *)
(* in any order), then a visualizer is constructed from the analyzer and   *)
(* asked for the network properties.                                       *)
(***************************************************************************)

NetCorpus ==
  { <<59, 342>>, <<211, 99, 342>>, <<59, 343>>, <<59, 344>>,
    <<59, 456>>, <<59, 789>>, <<59, 65>> }

NextNet ==
  \/ ~visualizer.built /\ AddInscription(NetCorpus \ Added)
  \/ ~visualizer.built /\ NewVisualizer
  \/ AnalyzeNetworkProperties

SpecNet == Init /\ [][NextNet]_vars

(***************************************************************************)
(* Claims                                                                  *)
(***************************************************************************)

IsPredict == last.op = "predict_missing_sign"

\* C1: whenever predict_missing_sign has returned, its prediction is the one
\* given by the transition matrix derived from bigram_counts as it is at the
\* call (no stale matrix is used): an inscription added after the engine was
\* constructed shows in the engine's next prediction.
C1_PredictionIsFresh ==
  (IsPredict /\ ~last.raised) =>
    last.out = predict_missing_sign(build_transition_matrix(bigram_counts),
                                    last.signs, last.gap)

ScenarioTrained == Added = training_data

EngineBuiltAfterwards ==
  /\ engine.built
  /\ engine.transition_matrix = build_transition_matrix(bigram_counts)

WheelGapJar ==
  /\ IsPredict
  /\ last.signs = <<211, NoneVal, 342>>
  /\ last.gap = 1
  /\ ~last.raised

\* C2 as stated: with the six training inscriptions added in any order and
\* the engine built afterwards, the prediction for [WHEEL, gap, JAR] has
\* ARROW (99) first.
C2_ArrowFirst ==
  (ScenarioTrained /\ EngineBuiltAfterwards /\ WheelGapJar)
    => (Len(last.out) >= 1 /\ last.out[1].id = 99)

\* C2 as amended: with the six training inscriptions added in any order and
\* the engine built afterwards, the prediction for [WHEEL, gap, JAR] is
\* STROKE (789) with score 1/2 first and ARROW (99) with score 1/3 second,
\* and nothing else.
C2_StrokeFirstArrowSecond ==
  (ScenarioTrained /\ EngineBuiltAfterwards /\ WheelGapJar)
    => /\ Len(last.out) = 2
       /\ last.out[1].id = 789 /\ FEq(last.out[1].score, Frac(1, 2))
       /\ last.out[2].id = 99  /\ FEq(last.out[2].score, Frac(1, 3))

C2_Witness == ScenarioTrained /\ EngineBuiltAfterwards /\ WheelGapJar

GapOutOfBounds == last.gap < 0 \/ last.gap >= Len(last.signs)

\* C3: predict_missing_sign called with a gap index outside the sequence
\* (negative, or at least its length) always fails; it never returns a list.
C3_OutOfBoundsRaises ==
  (IsPredict /\ GapOutOfBounds) => last.raised

\* the corpus list reordered by the permutation f of its indices
Reordered(f) == [i \in DOMAIN corpus |-> corpus[f[i]]]

IndexPermutations ==
  {f \in [DOMAIN corpus -> DOMAIN corpus] : \A i, j \in DOMAIN corpus : f[i] = f[j] => i = j}

RECURSIVE TableOf(_, _)
\* a fresh analyzer fed the first n inscriptions of list, in order
TableOf(list, n) ==
  IF n = 0 THEN EmptyDict ELSE add_inscription(TableOf(list, n - 1), list[n])

\* C4: add_inscription commutes: from the table reached, adding A then B
\* gives the same keys and counts as adding B then A, and feeding a fresh
\* analyzer the inscriptions added so far in any other order gives the table
\* reached.
C4_AddCommutes ==
  /\ \A A, B \in Inscriptions :
       DictEq(add_inscription(add_inscription(bigram_counts, A), B),
              add_inscription(add_inscription(bigram_counts, B), A))
  /\ \A f \in IndexPermutations :
       DictEq(TableOf(Reordered(f), Len(corpus)), bigram_counts)

C4_Witness ==
  /\ Len(corpus) >= 2
  /\ corpus[1] # corpus[2]
  /\ last.op = "add_inscription"
  /\ \E e \in {bigram_counts[i] : i \in DOMAIN bigram_counts} : e.count >= 2

FAdd(a, b) == Frac(a.num * b.den + b.num * a.den, a.den * b.den)

RECURSIVE FSum(_)
\* the sum of the values of a function into fractions
FSum(f) ==
  IF DOMAIN f = {} THEN FZero
  ELSE LET t == CHOOSE x \in DOMAIN f : TRUE
       IN  FAdd(f[t], FSum([x \in (DOMAIN f) \ {t} |-> f[x]]))

FOne == Frac(1, 1)

Names == {get_name(id) : id \in SignIds} \cup {"START", "END"}

RowSumsToOne(row) ==
  /\ \A t \in DOMAIN row : row[t].num >= 0 /\ row[t].den > 0
  /\ FEq(FSum(row), FOne)

\* C5: in every state reached by add_inscription calls, for every source
\* name with at least one observed transition the probabilities to the
\* targets with nonzero count are non-negative and sum to exactly 1 (the
\* counts of the source's bigrams sum to its total), in
\* get_transition_probability and in every row of the matrix
\* _build_transition_matrix gives, the engine's included; for a source never
\* observed every probability is 0.
C5_ProbabilitiesSumToOne ==
  /\ \A s \in Names :
       LET observed == {t \in Names : GetCount(bigram_counts, s, t) > 0}
           row      == [t \in observed |-> get_transition_probability(bigram_counts, s, t)]
           matrix   == build_transition_matrix(bigram_counts)
       IN  IF observed # {}
             THEN /\ RowSumsToOne(row)
                  /\ \A t \in observed :
                       /\ row[t].num = GetCount(bigram_counts, s, t)
                       /\ row[t].den = SumCounts(bigram_counts, s)
                       /\ matrix[s][t] = row[t]
                  /\ s \in DOMAIN matrix
                  /\ DOMAIN matrix[s] = observed
                  /\ RowSumsToOne(matrix[s])
             ELSE /\ \A t \in Names :
                       FEq(get_transition_probability(bigram_counts, s, t), FZero)
                  /\ s \notin DOMAIN matrix
  /\ \A s \in DOMAIN engine.transition_matrix :
       RowSumsToOne(engine.transition_matrix[s])
  /\ last.op = "get_transition_probability" =>
       last.out = get_transition_probability(bigram_counts, last.names[1], last.names[2])

C5_Witness ==
  /\ last.op = "get_transition_probability"
  /\ last.out.num > 0
  /\ last.out.num < last.out.den
  /\ engine.built
  /\ \E s \in DOMAIN engine.transition_matrix :
       Cardinality(DOMAIN engine.transition_matrix[s]) >= 2

IsValidate == last.op = "validate_syntax"

RoleAt(signs, i) == get_role(signs[i])

\* C6: validate_syntax returns valid exactly when the sequence has at least
\* MIN_SEQUENCE_LENGTH signs, its last sign's role is TERMINAL or QUANTITY,
\* and can_follow holds for every adjacent pair; so a sequence whose last
\* sign is neither TERMINAL nor QUANTITY is invalid.
C6_ValidIff ==
  IsValidate =>
    LET signs == last.signs
    IN  /\ last.out.valid <=>
             /\ Len(signs) >= 2
             /\ RoleAt(signs, Len(signs)) \in {"TERMINAL", "QUANTITY"}
             /\ \A i \in 1..(Len(signs) - 1) : can_follow(signs[i], signs[i + 1])
        /\ (Len(signs) >= 1 /\ RoleAt(signs, Len(signs)) \notin {"TERMINAL", "QUANTITY"})
             => ~last.out.valid

C6_Witness ==
  /\ IsValidate
  /\ last.out.valid
  /\ Len(last.signs) >= 3
  /\ RoleAt(last.signs, Len(last.signs)) = "QUANTITY"

HasForbiddenPair(signs) ==
  \E i \in 1..(Len(signs) - 1) :
    <<RoleAt(signs, i), RoleAt(signs, i + 1)>> \in
      { <<"TERMINAL", "COMMODITY">>, <<"TERMINAL", "OPERATOR">>,
        <<"QUANTITY", "OPERATOR">> }

\* C7: a sequence holding, at any position, two adjacent signs whose roles
\* are a pair of FORBIDDEN_TRANSITIONS is rejected by validate_syntax; so is
\* [342, 59].
C7_ForbiddenPairRejected ==
  /\ (IsValidate /\ HasForbiddenPair(last.signs)) => ~last.out.valid
  /\ (IsValidate /\ last.signs = <<342, 59>>) => ~last.out.valid

\* the forbidden pair is what rejects the sequence: it is long enough, ends
\* in a terminal, and the pair is not at its start
C7_Witness ==
  /\ IsValidate
  /\ Len(last.signs) = 4
  /\ RoleAt(last.signs, 4) = "TERMINAL"
  /\ <<RoleAt(last.signs, 2), RoleAt(last.signs, 3)>> = <<"QUANTITY", "OPERATOR">>
  /\ RoleAt(last.signs, 1) = "COMMODITY"
  /\ ~last.out.valid

CatalogIndex(id) == CHOOSE i \in DOMAIN SIGN_CATALOG : SIGN_CATALOG[i].id = id

\* the catalog signs with nonzero joint probability for the last query
Eligible ==
  {info.id : info \in {SIGN_CATALOG[i] : i \in
     {j \in DOMAIN SIGN_CATALOG :
        FPos(JointProb(engine.transition_matrix, last.signs, last.gap,
                       SIGN_CATALOG[j].name))}}}

\* joint probability times 0.1 for each violated can_follow check
FinalScore(id) ==
  LET joint == JointProb(engine.transition_matrix, last.signs, last.gap, get_name(id))
      v1    == ~can_follow(pre_sign(last.signs, last.gap), id)
      v2    == ~can_follow(id, post_sign(last.signs, last.gap))
  IN  Frac(joint.num,
           joint.den * (IF v1 THEN 10 ELSE 1) * (IF v2 THEN 10 ELSE 1))

Returned == {last.out[i].id : i \in DOMAIN last.out}

\* C8: predict_missing_sign returns at most 3 candidates, with non-increasing
\* scores, each a catalog sign with nonzero joint probability carrying its
\* final score (joint probability times 0.1 per violated can_follow check);
\* every such sign left out scores no more than every one returned, and
\* equal scores stand in catalog order.
C8_TopThree ==
  (IsPredict /\ ~last.raised) =>
    LET out == last.out
    IN  /\ Len(out) <= 3
        /\ Len(out) = (IF Cardinality(Eligible) < 3 THEN Cardinality(Eligible) ELSE 3)
        /\ \A i, j \in DOMAIN out :
             i < j => /\ ~FLess(out[i].score, out[j].score)
                      /\ out[i].id # out[j].id
                      /\ FEq(out[i].score, out[j].score)
                           => CatalogIndex(out[i].id) < CatalogIndex(out[j].id)
        /\ \A i \in DOMAIN out :
             /\ out[i].id \in Eligible
             /\ FEq(out[i].score, FinalScore(out[i].id))
        /\ \A e \in Eligible \ Returned : \A r \in Returned :
             /\ ~FLess(FinalScore(r), FinalScore(e))
             /\ FEq(FinalScore(r), FinalScore(e)) => CatalogIndex(r) < CatalogIndex(e)

C8_Witness ==
  /\ IsPredict
  /\ ~last.raised
  /\ Len(last.out) = 3
  /\ Cardinality(Eligible) >= 4
  /\ FLess(last.out[2].score, last.out[1].score)
  /\ FEq(last.out[2].score, last.out[3].score)
  /\ \E e \in Eligible \ Returned :
       ~can_follow(e, post_sign(last.signs, last.gap))

IsAnalyze == last.op = "analyze_network_properties"

\* the visualizer was constructed from the table as it is now
VisualizerIsCurrent == visualizer.built /\ visualizer.graph = build_graph(bigram_counts)

RECURSIVE CountsInto(_, _)
\* the sum of the counts of the bigrams ending at node
CountsInto(counts, node) ==
  IF counts = << >> THEN 0
  ELSE (IF Head(counts).tgt = node THEN Head(counts).count ELSE 0)
       + CountsInto(Tail(counts), node)

RECURSIVE CountsOutOf(_, _)
\* the sum of the counts of the bigrams starting at node
CountsOutOf(counts, node) ==
  IF counts = << >> THEN 0
  ELSE (IF Head(counts).src = node THEN Head(counts).count ELSE 0)
       + CountsOutOf(Tail(counts), node)

TableNodes ==
  {bigram_counts[i].src : i \in DOMAIN bigram_counts}
    \cup {bigram_counts[i].tgt : i \in DOMAIN bigram_counts}

Sinks ==
  {n \in TableNodes : CountsInto(bigram_counts, n) > CountsOutOf(bigram_counts, n)}

Reported == {last.out.terminals[i].node : i \in DOMAIN last.out.terminals}

\* C9: for a visualizer built from the analyzer's table,
\* analyze_network_properties reports as sinks only nodes whose weighted
\* in-degree (the sum of the counts of the bigrams ending there) exceeds
\* their weighted out-degree, at most 5 of them, those of largest in-degree,
\* in non-increasing in-degree order, all of them when there are 5 or fewer;
\* for the empty corpus the sink list is empty and the density is 0.
C9_TopFiveSinks ==
  (IsAnalyze /\ VisualizerIsCurrent) =>
    LET t == last.out.terminals
    IN  /\ Len(t) <= 5
        /\ \A i \in DOMAIN t :
             /\ t[i].node \in Sinks
             /\ t[i].i_d = CountsInto(bigram_counts, t[i].node)
             /\ t[i].o_d = CountsOutOf(bigram_counts, t[i].node)
             /\ t[i].i_d > t[i].o_d
        /\ \A i, j \in DOMAIN t :
             i < j => t[i].i_d >= t[j].i_d /\ t[i].node # t[j].node
        /\ \A s \in Sinks \ Reported : \A i \in DOMAIN t :
             CountsInto(bigram_counts, s) <= t[i].i_d
        /\ Cardinality(Sinks) <= 5 => Reported = Sinks
        /\ Cardinality(Sinks) > 5 => Len(t) = 5
        /\ corpus = << >> => (t = << >> /\ FEq(last.out.density, FZero))

C9_Witness ==
  /\ IsAnalyze
  /\ VisualizerIsCurrent
  /\ Cardinality(Sinks) >= 6
  /\ Len(last.out.terminals) = 5
  /\ last.out.terminals[1].i_d > last.out.terminals[5].i_d
  /\ \E n \in TableNodes \ Sinks :
       CountsInto(bigram_counts, n) = CountsOutOf(bigram_counts, n)

Max0(n) == IF n > 0 THEN n ELSE 0

\* C10: bigram_counts changes only in add_inscription: every other call
\* leaves every key and count as it was (no key is added, not even with
\* count 0), and add_inscription of n signs removes no key, lowers no count,
\* and raises the total of the counts by exactly max(n - 1, 0).
C10_OnlyAddMutates ==
  [][ IF last'.op = "add_inscription"
        THEN /\ \A i \in DOMAIN bigram_counts :
                  /\ HasKey(bigram_counts', bigram_counts[i].src, bigram_counts[i].tgt)
                  /\ GetCount(bigram_counts', bigram_counts[i].src, bigram_counts[i].tgt)
                       >= bigram_counts[i].count
             /\ SumAll(bigram_counts') = SumAll(bigram_counts) + Max0(Len(last'.signs) - 1)
        ELSE bigram_counts' = bigram_counts ]_vars

\* a lookup of a pair never observed, from an observed source, after
\* inscriptions of one sign and of several signs were added
C10_Witness ==
  /\ last.op = "get_transition_probability"
  /\ SumCounts(bigram_counts, last.names[1]) > 0
  /\ ~HasKey(bigram_counts, last.names[1], last.names[2])
  /\ \E i, j \in DOMAIN corpus : Len(corpus[i]) = 1 /\ Len(corpus[j]) > 2

GapInBounds == 0 <= last.gap /\ last.gap < Len(last.signs)

GapIsFirst == GapInBounds /\ last.gap = 0

GapIsLast == GapInBounds /\ last.gap = Len(last.signs) - 1

\* C11: when the gap is the first position (preceding context START) or the
\* last position (following context END), predict_missing_sign returns the
\* empty list, whatever inscriptions were added before or after the engine
\* was built, because no bigram has the name START as its source or the
\* name END as its target, neither in bigram_counts nor in the matrix the
\* engine holds.
C11_EdgeGapEmpty ==
  /\ \A i \in DOMAIN bigram_counts :
       bigram_counts[i].src # "START" /\ bigram_counts[i].tgt # "END"
  /\ "START" \notin DOMAIN engine.transition_matrix
  /\ \A s \in DOMAIN engine.transition_matrix :
       "END" \notin DOMAIN engine.transition_matrix[s]
  /\ (IsPredict /\ ~last.raised /\ (GapIsFirst \/ GapIsLast)) =>
       /\ GapIsFirst => pre_name(last.signs, last.gap) = "START"
       /\ GapIsLast => post_name(last.signs, last.gap) = "END"
       /\ last.out = << >>

\* a gap at the first position before a sign the engine's matrix knows as a
\* target, and a gap at the last position after a sign it knows as a source
C11_Witness ==
  /\ IsPredict
  /\ ~last.raised
  /\ last.out = << >>
  /\ engine.transition_matrix # EmptyMatrix
  /\ \/ /\ GapIsFirst /\ ~GapIsLast
        /\ \E s \in DOMAIN engine.transition_matrix :
             post_name(last.signs, last.gap) \in DOMAIN engine.transition_matrix[s]
     \/ /\ GapIsLast /\ ~GapIsFirst
        /\ pre_name(last.signs, last.gap) \in DOMAIN engine.transition_matrix

====
